---- MODULE Spec2Model ----
(***************************************************************************)
(* Model of the interactive logs viewer of ifrit                           *)
(* (internal/ui/logsviewer/logsviewer.go).                                 *)
(*                                                                         *)
(* One Model value (tabs, active, geometry, cmds, readers, quitting) is    *)
(* mutated by Update on the Bubble Tea event loop.  Every tab has a        *)
(* production side: the tailLogs command and the continueScanning          *)
(* commands it chains, each run by the runtime in a goroutine of its own,  *)
(* reading the pipe both output channels of the child process write to.    *)
(* The child processes, the kernel pipes and the user are the environment. *)
(***************************************************************************)
EXTENDS Integers, Sequences, FiniteSets, TLC

\* ------------------------------------------------------------------ bounds

NTabs == 2          \* number of project names handed to Run
MaxLines == 2       \* maxLines, scaled down (10000 in the source)
MaxEmit == 2        \* lines a child writes at most
LiveEmit == 1       \* the same, in the specification with fairness
PipeCap == 1        \* lines the kernel pipe holds before the child blocks
BarTabs == 10       \* tabs of the viewer whose tab bar is checked
KeysTabs == 3       \* tabs of the viewer whose keys are checked

\* The tab indices of a session that was given NTabs project names.
AllTabs == 0 .. (NTabs - 1)

\* ------------------------------------------------------------- variables

VARIABLES
    lines,        \* tabs[i].lines
    follow,       \* tabs[i].follow
    hasUnread,    \* tabs[i].hasUnread
    vpContent,    \* tabs[i].viewport: its content lines
    vpY,          \* tabs[i].viewport.YOffset
    active,       \* m.active
    width,        \* m.width
    height,       \* m.height
    ready,        \* m.ready
    quitting,     \* m.quitting
    cmdProcess,   \* m.cmds[i].Process # nil
    readers,      \* m.readers[i] # nil
    loopExited,   \* the runtime has handled the quit command: Update runs no more
    pc,           \* where source i's production side stands
    msg,          \* the message source i's command returned, not yet handled
    sbuf,         \* lines the bufio.Scanner of source i holds buffered
    prOpen,       \* the read end of pipe i is open in the viewer
    pwOpen,       \* the write end of pipe i is open in the viewer
    proc,         \* child process i: "none", "running", "exited", "reaped"
    exitErr,      \* what cmd.Wait reports for child i
    desc,         \* a descendant of child i holds the pipe's write end
    pipe,         \* lines written to pipe i and not yet read
    emitted,      \* history: all lines child i wrote
    appended,     \* history: all lines appendLine added to tab i
    msgLog,       \* history: the kinds of the messages source i produced
    pendingAtQuit, \* history: the sources blocked in Scan or Wait at a quit
    clearedUnread, \* history (kept by ViewSpec): a tab switch cleared a set hasUnread
    run,          \* the call of Run: where it stands, its input, the build calls, its result
    frame         \* what View returned when the runtime last rendered

modelVars == <<lines, follow, hasUnread, vpContent, vpY, active, width, height,
               ready, quitting, cmdProcess, readers>>
viewVars == <<lines, follow, hasUnread, vpContent, vpY, active, width, height, ready>>
prodVars == <<pc, msg, sbuf>>
osVars == <<prOpen, pwOpen, proc, exitErr, desc, pipe, emitted>>
histVars == <<appended, msgLog, pendingAtQuit, clearedUnread>>
auxVars == <<run, frame>>
vars == <<modelVars, loopExited, prodVars, osVars, histVars, auxVars>>

\* The indices of the tabs: New makes one tab, one command and one reader
\* for each project name.
Tabs == 0 .. (run.nNames - 1)

\* len(m.tabs).
NumTabs == Cardinality(DOMAIN lines)

\* --------------------------------------------------------------- helpers

Max(a, b) == IF a >= b THEN a ELSE b
Min(a, b) == IF a <= b THEN a ELSE b

\* The last n elements of s (all of s when it is shorter).
LastN(s, n) == SubSeq(s, Max(1, Len(s) - n + 1), Len(s))

\* The text of the k-th line a child writes.
LineText(k) == ToString(k)

NoMsg == [kind |-> "none"]
LineMsg(i, text) == [kind |-> "line", tab |-> i, line |-> text]
ExitMsg(i, err) == [kind |-> "exit", tab |-> i, err |-> err]

\* StatusLine that leaves the error out.
StatusLineNoError(err) == " [process exited]"

\* Update's processExitedMsg case: the status line for an error ("nil": none).
StatusLine(err) ==
    IF err = "nil" THEN " [process exited]"
    ELSE " [process exited: " \o err \o "]"

\* AppendCap with the trim taken from the wrong end (t.lines[:maxLines]): the
\* newest line is dropped instead of the oldest.
AppendCapKeepOldest(ls, line, cap) ==
    LET all == Append(ls, line)
    IN  IF Len(all) > cap THEN SubSeq(all, 1, cap) ELSE all

\* appendLine's buffer part with maxLines = cap: append, then keep the
\* newest cap lines.
AppendCap(ls, line, cap) ==
    LET all == Append(ls, line)
    IN  IF Len(all) > cap
        THEN SubSeq(all, Len(all) - cap + 1, Len(all))
        ELSE all

AppendBuf(ls, line) == AppendCap(ls, line, MaxLines)

\* ------------------------------------------------- viewport (bubbles)

\* strings.Join(lines, "\n") split into lines again by SetContent: no line
\* at all joins to the empty string, which is one empty line.
ContentOf(ls) == IF ls = <<>> THEN <<"">> ELSE ls

\* viewportHeight: the height left after the tab bar and the help line.
viewportHeight(h) == Max(h - 4, 1)

\* The viewport's height: zero until initViewports has built it.
VpHeight == IF ready THEN viewportHeight(height) ELSE 0

MaxYOffset(content, h) == Max(0, Len(content) - h)
AtBottom(content, y, h) == y >= MaxYOffset(content, h)

\* viewport.SetContent: past the end, the offset goes to the bottom.
SetContentY(content, y, h) ==
    IF y > Len(content) - 1 THEN MaxYOffset(content, h) ELSE y

\* viewport.View: the lines of tab i's viewport that are on screen.
Visible(i) ==
    SubSeq(vpContent[i], vpY[i] + 1, Min(vpY[i] + VpHeight, Len(vpContent[i])))

\* ------------------------------------------------------------------ Init

\* The Model New builds: every tab empty and following, nothing started.
NewModel ==
    /\ lines = [i \in Tabs |-> <<>>]
    /\ follow = [i \in Tabs |-> TRUE]
    /\ hasUnread = [i \in Tabs |-> FALSE]
    /\ vpContent = [i \in Tabs |-> <<>>]
    /\ vpY = [i \in Tabs |-> 0]
    /\ active = 0
    /\ width = 0
    /\ height = 0
    /\ ready = FALSE
    /\ quitting = FALSE
    /\ cmdProcess = [i \in Tabs |-> FALSE]
    /\ readers = [i \in Tabs |-> FALSE]
    /\ loopExited = FALSE
    /\ pc = [i \in Tabs |-> "start"]
    /\ msg = [i \in Tabs |-> NoMsg]
    /\ sbuf = [i \in Tabs |-> <<>>]
    /\ prOpen = [i \in Tabs |-> FALSE]
    /\ pwOpen = [i \in Tabs |-> FALSE]
    /\ proc = [i \in Tabs |-> "none"]
    /\ exitErr = [i \in Tabs |-> "nil"]
    /\ desc = [i \in Tabs |-> FALSE]
    /\ pipe = [i \in Tabs |-> <<>>]
    /\ emitted = [i \in Tabs |-> <<>>]
    /\ appended = [i \in Tabs |-> <<>>]
    /\ msgLog = [i \in Tabs |-> <<>>]
    /\ pendingAtQuit = {}
    /\ clearedUnread = FALSE
    /\ frame = [text |-> "none", tabBar |-> <<>>, barWidth |-> 0, vp |-> <<>>,
                help |-> ""]

\* The build calls of a New that succeeds for n names: one per name, in order.
AllCalls(n) == [k \in 1 .. n |-> k - 1]

\* Run has called New, the program runs and Init has handed every tailLogs
\* command to the runtime.
Init ==
    /\ run = [phase |-> "loop", nNames |-> NTabs, calls |-> AllCalls(NTabs),
              failed |-> {}, err |-> "nil"]
    /\ NewModel

\* ------------------------------------------- the production side (tailLogs)

\* A command's return value is handed to the runtime as a message.
Emit(i, m) ==
    /\ msg' = [msg EXCEPT ![i] = m]
    /\ msgLog' = [msgLog EXCEPT ![i] = Append(@, m.kind)]

\* tailLogs: os.Pipe().  On failure the command returns a processExitedMsg.
TailPipe(i, ok) ==
    /\ pc[i] = "start"
    /\ IF ok
       THEN /\ prOpen' = [prOpen EXCEPT ![i] = TRUE]
            /\ pwOpen' = [pwOpen EXCEPT ![i] = TRUE]
            /\ pc' = [pc EXCEPT ![i] = "piped"]
            /\ UNCHANGED <<msg, msgLog>>
       ELSE /\ pc' = [pc EXCEPT ![i] = "exitmsg"]
            /\ Emit(i, ExitMsg(i, "pipe: too many open files"))
            /\ UNCHANGED <<prOpen, pwOpen>>
    /\ UNCHANGED <<modelVars, loopExited, sbuf, proc, exitErr, desc, pipe,
                   emitted, appended, pendingAtQuit, clearedUnread>>

\* tailLogs: cmd.Start() fails; both pipe ends are closed.
TailStartFail(i) ==
    /\ pc[i] = "piped"
    /\ prOpen' = [prOpen EXCEPT ![i] = FALSE]
    /\ pwOpen' = [pwOpen EXCEPT ![i] = FALSE]
    /\ pc' = [pc EXCEPT ![i] = "exitmsg"]
    /\ Emit(i, ExitMsg(i, "exec: not found"))
    /\ UNCHANGED <<modelVars, loopExited, sbuf, proc, exitErr, desc, pipe,
                   emitted, appended, pendingAtQuit, clearedUnread>>

\* tailLogs: inside cmd.Start() the child has been forked with the write end
\* as its stdout and stderr; cmd.Process is not assigned yet.  d: the child
\* will hand the write end on to a descendant that outlives it.
TailFork(i, d) ==
    /\ pc[i] = "piped"
    /\ proc' = [proc EXCEPT ![i] = "running"]
    /\ desc' = [desc EXCEPT ![i] = d]
    /\ pc' = [pc EXCEPT ![i] = "forked"]
    /\ UNCHANGED <<modelVars, loopExited, msg, sbuf, prOpen, pwOpen, exitErr,
                   pipe, emitted, histVars>>

\* tailLogs: cmd.Start() returns with cmd.Process set; pw.Close().
TailStarted(i) ==
    /\ pc[i] = "forked"
    /\ cmdProcess' = [cmdProcess EXCEPT ![i] = TRUE]
    /\ pwOpen' = [pwOpen EXCEPT ![i] = FALSE]
    /\ pc' = [pc EXCEPT ![i] = "started"]
    /\ UNCHANGED <<viewVars, quitting, readers, loopExited, msg, sbuf, prOpen,
                   proc, exitErr, desc, pipe, emitted, histVars>>

\* tailLogs: m.readers[tab] = pr, then the scanner is built and Scan called.
TailStore(i) ==
    /\ pc[i] = "started"
    /\ readers' = [readers EXCEPT ![i] = TRUE]
    /\ pc' = [pc EXCEPT ![i] = "scan"]
    /\ UNCHANGED <<viewVars, quitting, cmdProcess, loopExited, msg, sbuf,
                   osVars, histVars>>

\* Some process holds the write end of pipe i.
Writers(i) == pwOpen[i] \/ proc[i] = "running" \/ desc[i]

\* What a Scan call of source i can see without blocking: the scanner's
\* buffered lines, else (one read) whatever the pipe holds.
Avail(i) ==
    IF sbuf[i] # <<>> THEN sbuf[i]
    ELSE IF prOpen[i] THEN pipe[i] ELSE <<>>

\* The pipe after that Scan call.
PipeAfterScan(i) ==
    IF sbuf[i] = <<>> /\ prOpen[i] THEN [pipe EXCEPT ![i] = <<>>] ELSE pipe

\* ScanLine for sources read in turn by one reader: source i is read only
\* while no source before it is blocked in its read.
ScanLineInTurn(i) ==
    /\ pc[i] = "scan"
    /\ \A j \in Tabs : j < i => pc[j] # "scan" \/ Avail(j) # <<>>
    /\ Avail(i) # <<>>
    /\ ~Head(Avail(i)).long
    /\ sbuf' = [sbuf EXCEPT ![i] = Tail(Avail(i))]
    /\ pipe' = PipeAfterScan(i)
    /\ pc' = [pc EXCEPT ![i] = "linemsg"]
    /\ Emit(i, LineMsg(i, LineText(Head(Avail(i)).n)))
    /\ UNCHANGED <<modelVars, loopExited, prOpen, pwOpen, proc, exitErr, desc,
                   emitted, appended, pendingAtQuit, clearedUnread>>

\* ScanLine with a scanner that does not advance past the line it returned.
ScanLineAgain(i) ==
    /\ pc[i] = "scan"
    /\ Avail(i) # <<>>
    /\ ~Head(Avail(i)).long
    /\ sbuf' = [sbuf EXCEPT ![i] = Avail(i)]
    /\ pipe' = PipeAfterScan(i)
    /\ pc' = [pc EXCEPT ![i] = "linemsg"]
    /\ Emit(i, LineMsg(i, LineText(Head(Avail(i)).n)))
    /\ UNCHANGED <<modelVars, loopExited, prOpen, pwOpen, proc, exitErr, desc,
                   emitted, appended, pendingAtQuit, clearedUnread>>

\* tailLogs / continueScanning: scanner.Scan() returns true; the command
\* returns logLineAndContinue with the line's text.
\* ScanLine of a reader that sends the line and goes on reading without
\* waiting for Update to schedule the next read.
ScanLineEager(i) ==
    /\ pc[i] = "scan"
    /\ Avail(i) # <<>>
    /\ ~Head(Avail(i)).long
    /\ sbuf' = [sbuf EXCEPT ![i] = Tail(Avail(i))]
    /\ pipe' = PipeAfterScan(i)
    /\ pc' = pc
    /\ Emit(i, LineMsg(i, LineText(Head(Avail(i)).n)))
    /\ UNCHANGED <<modelVars, loopExited, prOpen, pwOpen, proc, exitErr, desc,
                   emitted, appended, pendingAtQuit, clearedUnread>>

ScanLine(i) ==
    /\ pc[i] = "scan"
    /\ Avail(i) # <<>>
    /\ ~Head(Avail(i)).long
    /\ sbuf' = [sbuf EXCEPT ![i] = Tail(Avail(i))]
    /\ pipe' = PipeAfterScan(i)
    /\ pc' = [pc EXCEPT ![i] = "linemsg"]
    /\ Emit(i, LineMsg(i, LineText(Head(Avail(i)).n)))
    /\ UNCHANGED <<modelVars, loopExited, prOpen, pwOpen, proc, exitErr, desc,
                   emitted, appended, pendingAtQuit, clearedUnread>>

\* scanner.Scan() returns false: the next line is longer than the scanner's
\* 1 MiB cap, or nothing is buffered and the read failed (the read end was
\* closed) or reached the end of the stream (no writer is left).
ScanFail(i) ==
    /\ pc[i] = "scan"
    /\ IF Avail(i) # <<>> THEN Head(Avail(i)).long
       ELSE ~prOpen[i] \/ ~Writers(i)
    /\ sbuf' = [sbuf EXCEPT ![i] = Avail(i)]
    /\ pipe' = PipeAfterScan(i)
    /\ pc' = [pc EXCEPT ![i] = "wait"]
    /\ UNCHANGED <<modelVars, loopExited, msg, prOpen, pwOpen, proc, exitErr,
                   desc, emitted, histVars>>

\* WaitReturn without pr.Close().
WaitReturnKeepReader(i) ==
    /\ pc[i] = "wait"
    /\ proc[i] \in {"exited", "reaped"}
    /\ proc' = [proc EXCEPT ![i] = "reaped"]
    /\ prOpen' = prOpen
    /\ pc' = [pc EXCEPT ![i] = "exitmsg"]
    /\ Emit(i, ExitMsg(i, exitErr[i]))
    /\ UNCHANGED <<modelVars, loopExited, sbuf, pwOpen, exitErr, desc, pipe,
                   emitted, appended, pendingAtQuit, clearedUnread>>

\* cmd.Wait() returns once the child has terminated; pr.Close(); the command
\* returns processExitedMsg with Wait's error.
WaitReturn(i) ==
    /\ pc[i] = "wait"
    /\ proc[i] \in {"exited", "reaped"}
    /\ proc' = [proc EXCEPT ![i] = "reaped"]
    /\ prOpen' = [prOpen EXCEPT ![i] = FALSE]
    /\ pc' = [pc EXCEPT ![i] = "exitmsg"]
    /\ Emit(i, ExitMsg(i, exitErr[i]))
    /\ UNCHANGED <<modelVars, loopExited, sbuf, pwOpen, exitErr, desc, pipe,
                   emitted, appended, pendingAtQuit, clearedUnread>>

\* ------------------------------------------------ the child processes

\* The child writes its next line (long: longer than the scanner's cap) to
\* the pipe, a child that writes max lines at most; with the read end closed
\* the write kills it (SIGPIPE).  Nothing is read past an over-long line, so
\* a child writes none after one.
ChildEmitUpTo(i, long, max) ==
    /\ proc[i] = "running"
    /\ Len(emitted[i]) < max
    /\ \A k \in 1 .. Len(emitted[i]) : ~emitted[i][k].long
    /\ Len(pipe[i]) < PipeCap
    /\ IF prOpen[i]
       THEN LET l == [n |-> Len(emitted[i]) + 1, long |-> long]
            IN  /\ pipe' = [pipe EXCEPT ![i] = Append(@, l)]
                /\ emitted' = [emitted EXCEPT ![i] = Append(@, l)]
                /\ UNCHANGED <<proc, exitErr>>
       ELSE /\ proc' = [proc EXCEPT ![i] = "exited"]
            /\ exitErr' = [exitErr EXCEPT ![i] = "signal: broken pipe"]
            /\ UNCHANGED <<pipe, emitted>>
    /\ UNCHANGED <<modelVars, loopExited, prodVars, prOpen, pwOpen, desc, histVars>>

ChildEmit(i, long) == ChildEmitUpTo(i, long, MaxEmit)

\* The child terminates by itself, cleanly or with an error.
ChildExit(i, err) ==
    /\ proc[i] = "running"
    /\ proc' = [proc EXCEPT ![i] = "exited"]
    /\ exitErr' = [exitErr EXCEPT ![i] = err]
    /\ UNCHANGED <<modelVars, loopExited, prodVars, prOpen, pwOpen, desc, pipe,
                   emitted, histVars>>

\* ChildWrite for a child whose stderr was left unattached (cmd.Stderr nil):
\* what it writes there reaches no pipe.
ChildWriteStdoutOnly(i, ch) ==
    /\ proc[i] = "running"
    /\ Len(emitted[i]) < MaxEmit
    /\ Len(pipe[i]) < PipeCap
    /\ IF prOpen[i]
       THEN LET l == [n |-> Len(emitted[i]) + 1, long |-> FALSE, ch |-> ch]
            IN  /\ pipe' = [pipe EXCEPT ![i] = IF ch = "stdout" THEN Append(@, l) ELSE @]
                /\ emitted' = [emitted EXCEPT ![i] = Append(@, l)]
                /\ UNCHANGED <<proc, exitErr>>
       ELSE /\ proc' = [proc EXCEPT ![i] = "exited"]
            /\ exitErr' = [exitErr EXCEPT ![i] = "signal: broken pipe"]
            /\ UNCHANGED <<pipe, emitted>>
    /\ UNCHANGED <<modelVars, loopExited, prodVars, prOpen, pwOpen, desc, histVars>>

\* The output channels of a child.
Channels == {"stdout", "stderr"}

\* The child writes its next (short) line on channel ch: cmd.Stdout and
\* cmd.Stderr are the same write end, so either way the line goes to the end
\* of pipe i, and either way the write waits while the pipe is full.
ChildWrite(i, ch) ==
    /\ proc[i] = "running"
    /\ Len(emitted[i]) < MaxEmit
    /\ Len(pipe[i]) < PipeCap
    /\ IF prOpen[i]
       THEN LET l == [n |-> Len(emitted[i]) + 1, long |-> FALSE, ch |-> ch]
            IN  /\ pipe' = [pipe EXCEPT ![i] = Append(@, l)]
                /\ emitted' = [emitted EXCEPT ![i] = Append(@, l)]
                /\ UNCHANGED <<proc, exitErr>>
       ELSE /\ proc' = [proc EXCEPT ![i] = "exited"]
            /\ exitErr' = [exitErr EXCEPT ![i] = "signal: broken pipe"]
            /\ UNCHANGED <<pipe, emitted>>
    /\ UNCHANGED <<modelVars, loopExited, prodVars, prOpen, pwOpen, desc, histVars>>

\* ------------------------------------------------------ the event loop

\* SyncY without the jump to the bottom of a following tab.
SyncYNoJump(ls, a) ==
    IF ~ready THEN vpY
    ELSE [vpY EXCEPT ![a] = SetContentY(ContentOf(ls[a]), vpY[a], VpHeight)]

\* syncViewport: the viewports after the active tab a was given the buffers
\* ls (nothing happens before the geometry is known).
SyncContent(ls, a) ==
    IF ~ready THEN vpContent
    ELSE [vpContent EXCEPT ![a] = ContentOf(ls[a])]

SyncY(ls, a) ==
    IF ~ready THEN vpY
    ELSE [vpY EXCEPT ![a] =
            IF follow[a] THEN MaxYOffset(ContentOf(ls[a]), VpHeight)
            ELSE SetContentY(ContentOf(ls[a]), vpY[a], VpHeight)]

\* appendLine without its test for the active tab: hasUnread is set on
\* every append.
AppendLineAlwaysUnread(tab, line) ==
    IF tab < 0 \/ tab >= NumTabs
    THEN UNCHANGED <<lines, hasUnread, vpContent, vpY, appended>>
    ELSE LET ls == [lines EXCEPT ![tab] = AppendBuf(@, line)]
         IN  /\ lines' = ls
             /\ appended' = [appended EXCEPT ![tab] = Append(@, line)]
             /\ hasUnread' = [hasUnread EXCEPT ![tab] = TRUE]
             /\ IF tab = active
                THEN /\ vpContent' = SyncContent(ls, active)
                     /\ vpY' = SyncY(ls, active)
                ELSE UNCHANGED <<vpContent, vpY>>

\* appendLine that appends to the tab on screen instead of the tab named.
AppendLineToActive(tab, line) ==
    IF tab < 0 \/ tab >= NumTabs
    THEN UNCHANGED <<lines, hasUnread, vpContent, vpY, appended>>
    ELSE LET ls == [lines EXCEPT ![active] = AppendBuf(@, line)]
         IN  /\ lines' = ls
             /\ appended' = [appended EXCEPT ![active] = Append(@, line)]
             /\ vpContent' = SyncContent(ls, active)
             /\ vpY' = SyncY(ls, active)
             /\ UNCHANGED hasUnread

\* appendLine(tab, line).
AppendLine(tab, line) ==
    IF tab < 0 \/ tab >= NumTabs
    THEN UNCHANGED <<lines, hasUnread, vpContent, vpY, appended>>
    ELSE LET ls == [lines EXCEPT ![tab] = AppendBuf(@, line)]
         IN  /\ lines' = ls
             /\ appended' = [appended EXCEPT ![tab] = Append(@, line)]
             /\ IF tab = active
                THEN /\ vpContent' = SyncContent(ls, active)
                     /\ vpY' = SyncY(ls, active)
                     /\ UNCHANGED hasUnread
                ELSE /\ hasUnread' = [hasUnread EXCEPT ![tab] = TRUE]
                     /\ UNCHANGED <<vpContent, vpY>>

\* UpdateLine that drops msg.next instead of handing it to the runtime.
UpdateLineNoContinue(i) ==
    /\ ~loopExited
    /\ pc[i] = "linemsg"
    /\ AppendLine(msg[i].tab, msg[i].line)
    /\ msg' = [msg EXCEPT ![i] = NoMsg]
    /\ pc' = [pc EXCEPT ![i] = "dropped"]
    /\ UNCHANGED <<follow, active, width, height, ready, quitting, cmdProcess,
                   readers, loopExited, sbuf, osVars, msgLog, pendingAtQuit, clearedUnread>>

\* Update, case logLineAndContinue: append, and hand msg.next (the next
\* continueScanning command) to the runtime.
UpdateLine(i) ==
    /\ ~loopExited
    /\ pc[i] = "linemsg"
    /\ AppendLine(msg[i].tab, msg[i].line)
    /\ msg' = [msg EXCEPT ![i] = NoMsg]
    /\ pc' = [pc EXCEPT ![i] = "scan"]
    /\ UNCHANGED <<follow, active, width, height, ready, quitting, cmdProcess,
                   readers, loopExited, sbuf, osVars, msgLog, pendingAtQuit, clearedUnread>>

\* UpdateExit handing a further continueScanning command to the runtime, as
\* the logLineAndContinue case does.
UpdateExitAndContinue(i) ==
    /\ ~loopExited
    /\ pc[i] = "exitmsg"
    /\ AppendLine(msg[i].tab, StatusLine(msg[i].err))
    /\ msg' = [msg EXCEPT ![i] = NoMsg]
    /\ pc' = [pc EXCEPT ![i] = "scan"]
    /\ UNCHANGED <<follow, active, width, height, ready, quitting, cmdProcess,
                   readers, loopExited, sbuf, osVars, msgLog, pendingAtQuit, clearedUnread>>

\* UpdateExit that hands the source's tailLogs command to the runtime again,
\* to restart a source that has ended.
UpdateExitRestart(i) ==
    /\ ~loopExited
    /\ pc[i] = "exitmsg"
    /\ AppendLine(msg[i].tab, StatusLine(msg[i].err))
    /\ msg' = [msg EXCEPT ![i] = NoMsg]
    /\ pc' = [pc EXCEPT ![i] = "start"]
    /\ UNCHANGED <<follow, active, width, height, ready, quitting, cmdProcess,
                   readers, loopExited, sbuf, osVars, msgLog, pendingAtQuit, clearedUnread>>

\* Update, case processExitedMsg: append the status line.
UpdateExit(i) ==
    /\ ~loopExited
    /\ pc[i] = "exitmsg"
    /\ AppendLine(msg[i].tab, StatusLine(msg[i].err))
    /\ msg' = [msg EXCEPT ![i] = NoMsg]
    /\ pc' = [pc EXCEPT ![i] = "done"]
    /\ UNCHANGED <<follow, active, width, height, ready, quitting, cmdProcess,
                   readers, loopExited, sbuf, osVars, msgLog, pendingAtQuit, clearedUnread>>

\* killAll that kills the processes and leaves the read ends open.
killAllKeepReaders ==
    /\ proc' = [i \in Tabs |->
                  IF cmdProcess[i] /\ proc[i] = "running" THEN "exited" ELSE proc[i]]
    /\ exitErr' = [i \in Tabs |->
                  IF cmdProcess[i] /\ proc[i] = "running" THEN "signal: killed"
                  ELSE exitErr[i]]
    /\ prOpen' = prOpen

\* killAll: kill every process whose cmd.Process is set, close every stored
\* read end.
killAll ==
    /\ proc' = [i \in Tabs |->
                  IF cmdProcess[i] /\ proc[i] = "running" THEN "exited" ELSE proc[i]]
    /\ exitErr' = [i \in Tabs |->
                  IF cmdProcess[i] /\ proc[i] = "running" THEN "signal: killed"
                  ELSE exitErr[i]]
    /\ prOpen' = [i \in Tabs |-> IF readers[i] THEN FALSE ELSE prOpen[i]]

\* Update, keys ctrl+c, q, esc.
KeyQuit ==
    /\ ~loopExited
    /\ quitting' = TRUE
    /\ killAll
    /\ pendingAtQuit' = pendingAtQuit \cup {i \in Tabs : pc[i] \in {"scan", "wait"}}
    /\ UNCHANGED <<viewVars, cmdProcess, readers, loopExited, prodVars, pwOpen,
                   desc, pipe, emitted, appended, msgLog, clearedUnread>>

\* The runtime handles the tea.Quit command Update returned: the loop ends.
LoopExit ==
    /\ quitting
    /\ ~loopExited
    /\ loopExited' = TRUE
    /\ UNCHANGED <<modelVars, prodVars, osVars, histVars>>

\* SwitchTo without the call of syncViewport.
SwitchToNoSync(a) ==
    /\ active' = a
    /\ hasUnread' = [hasUnread EXCEPT ![a] = FALSE]
    /\ vpContent' = vpContent
    /\ vpY' = vpY

\* SwitchTo without the clearing of hasUnread.
SwitchToKeepUnread(a) ==
    /\ active' = a
    /\ hasUnread' = hasUnread
    /\ vpContent' = SyncContent(lines, a)
    /\ vpY' = SyncY(lines, a)

\* The three tab-switching cases share: clear hasUnread, syncViewport.
SwitchTo(a) ==
    /\ active' = a
    /\ hasUnread' = [hasUnread EXCEPT ![a] = FALSE]
    /\ vpContent' = SyncContent(lines, a)
    /\ vpY' = SyncY(lines, a)

\* KeyNext that stops at the last tab instead of wrapping.
KeyNextClamped ==
    /\ ~loopExited
    /\ SwitchTo(Min(active + 1, NumTabs - 1))
    /\ UNCHANGED <<lines, follow, width, height, ready, quitting, cmdProcess,
                   readers, loopExited, prodVars, osVars, appended, msgLog, pendingAtQuit>>

\* Update, keys tab, right, l.
KeyNext ==
    /\ ~loopExited
    /\ SwitchTo((active + 1) % NumTabs)
    /\ UNCHANGED <<lines, follow, width, height, ready, quitting, cmdProcess,
                   readers, loopExited, prodVars, osVars, appended, msgLog, pendingAtQuit>>

\* Update, keys shift+tab, left, h.
KeyPrev ==
    /\ ~loopExited
    /\ SwitchTo((active - 1 + NumTabs) % NumTabs)
    /\ UNCHANGED <<lines, follow, width, height, ready, quitting, cmdProcess,
                   readers, loopExited, prodVars, osVars, appended, msgLog, pendingAtQuit>>

\* KeyDigit that takes a digit past the last tab for the last tab.
KeyDigitClamped(d) ==
    /\ ~loopExited
    /\ SwitchTo(Min(d - 1, NumTabs - 1))
    /\ UNCHANGED <<lines, follow, width, height, ready, quitting, cmdProcess,
                   readers, loopExited, prodVars, osVars, appended, msgLog, pendingAtQuit>>

\* KeyDigit that jumps to the tabs of live sources only.
KeyDigitLiveOnly(d) ==
    /\ ~loopExited
    /\ IF d - 1 < NumTabs /\ pc[d - 1] # "done"
       THEN SwitchTo(d - 1)
       ELSE UNCHANGED <<active, hasUnread, vpContent, vpY>>
    /\ UNCHANGED <<lines, follow, width, height, ready, quitting, cmdProcess,
                   readers, loopExited, prodVars, osVars, appended, msgLog, pendingAtQuit>>

\* Update, keys 1 .. 9.
KeyDigit(d) ==
    /\ ~loopExited
    /\ IF d - 1 < NumTabs
       THEN SwitchTo(d - 1)
       ELSE UNCHANGED <<active, hasUnread, vpContent, vpY>>
    /\ UNCHANGED <<lines, follow, width, height, ready, quitting, cmdProcess,
                   readers, loopExited, prodVars, osVars, appended, msgLog, pendingAtQuit>>

\* KeyBottom that jumps without switching follow back on.
KeyBottomKeepFollow ==
    /\ ~loopExited
    /\ follow' = follow
    /\ vpY' = [vpY EXCEPT ![active] = MaxYOffset(vpContent[active], VpHeight)]
    /\ UNCHANGED <<lines, hasUnread, vpContent, active, width, height, ready,
                   quitting, cmdProcess, readers, loopExited, prodVars, osVars,
                   histVars>>

\* Update, keys G, end.
KeyBottom ==
    /\ ~loopExited
    /\ follow' = [follow EXCEPT ![active] = TRUE]
    /\ vpY' = [vpY EXCEPT ![active] = MaxYOffset(vpContent[active], VpHeight)]
    /\ UNCHANGED <<lines, hasUnread, vpContent, active, width, height, ready,
                   quitting, cmdProcess, readers, loopExited, prodVars, osVars,
                   histVars>>

\* KeyTop that sends every tab to its top.
KeyTopAll ==
    /\ ~loopExited
    /\ follow' = [i \in Tabs |-> FALSE]
    /\ vpY' = [i \in Tabs |-> 0]
    /\ UNCHANGED <<lines, hasUnread, vpContent, active, width, height, ready,
                   quitting, cmdProcess, readers, loopExited, prodVars, osVars,
                   histVars>>

\* Update, keys g, home.
KeyTop ==
    /\ ~loopExited
    /\ follow' = [follow EXCEPT ![active] = FALSE]
    /\ vpY' = [vpY EXCEPT ![active] = 0]
    /\ UNCHANGED <<lines, hasUnread, vpContent, active, width, height, ready,
                   quitting, cmdProcess, readers, loopExited, prodVars, osVars,
                   histVars>>

\* The keys Update forwards to the viewport; "x" stands for a key the
\* viewport binds to nothing.
ScrollKeys == {"up", "down", "pgup", "pgdown", "x"}

\* viewport.Update for a key: the new YOffset.  A viewport not yet built by
\* viewport.New has an empty key map.
ScrollY(k, content, y, h) ==
    IF ~ready THEN y
    ELSE CASE k = "down" ->
                IF AtBottom(content, y, h) THEN y
                ELSE Min(y + 1, MaxYOffset(content, h))
           [] k = "up" -> Max(y - 1, 0)
           [] k = "pgdown" ->
                IF AtBottom(content, y, h) THEN y
                ELSE Min(y + h, MaxYOffset(content, h))
           [] k = "pgup" -> Max(y - h, 0)
           [] OTHER -> y

\* KeyScroll that only ever switches follow off.
KeyScrollOnlyDisables(k) ==
    /\ ~loopExited
    /\ LET y == ScrollY(k, vpContent[active], vpY[active], VpHeight)
       IN  /\ vpY' = [vpY EXCEPT ![active] = y]
           /\ follow' = [follow EXCEPT ![active] =
                            @ /\ AtBottom(vpContent[active], y, VpHeight)]
    /\ UNCHANGED <<lines, hasUnread, vpContent, active, width, height, ready,
                   quitting, cmdProcess, readers, loopExited, prodVars, osVars,
                   histVars>>

\* KeyScroll without the recomputation of follow.
KeyScrollKeepFollow(k) ==
    /\ ~loopExited
    /\ LET y == ScrollY(k, vpContent[active], vpY[active], VpHeight)
       IN  /\ vpY' = [vpY EXCEPT ![active] = y]
           /\ follow' = follow
    /\ UNCHANGED <<lines, hasUnread, vpContent, active, width, height, ready,
                   quitting, cmdProcess, readers, loopExited, prodVars, osVars,
                   histVars>>

\* Update, default key case: forward to the viewport, then
\* tab.follow = tab.viewport.AtBottom().
KeyScroll(k) ==
    /\ ~loopExited
    /\ LET y == ScrollY(k, vpContent[active], vpY[active], VpHeight)
       IN  /\ vpY' = [vpY EXCEPT ![active] = y]
           /\ follow' = [follow EXCEPT ![active] =
                            AtBottom(vpContent[active], y, VpHeight)]
    /\ UNCHANGED <<lines, hasUnread, vpContent, active, width, height, ready,
                   quitting, cmdProcess, readers, loopExited, prodVars, osVars,
                   histVars>>

\* The terminal sizes a resize reports.
Widths == {80}
Heights == {5, 6}

\* Resize with an initViewports that rebuilds the active tab's viewport only.
ResizeActiveOnly(w, h) ==
    /\ ~loopExited
    /\ width' = w
    /\ height' = h
    /\ ready' = TRUE
    /\ vpContent' = [vpContent EXCEPT ![active] = ContentOf(lines[active])]
    /\ vpY' = [vpY EXCEPT ![active] =
                 IF follow[active]
                 THEN MaxYOffset(ContentOf(lines[active]), viewportHeight(h))
                 ELSE 0]
    /\ UNCHANGED <<lines, follow, hasUnread, active, quitting, cmdProcess,
                   readers, loopExited, prodVars, osVars, histVars>>

\* Update, case tea.WindowSizeMsg, with initViewports: every viewport is
\* built anew from its tab's buffer.
Resize(w, h) ==
    /\ ~loopExited
    /\ width' = w
    /\ height' = h
    /\ ready' = TRUE
    /\ vpContent' = [i \in Tabs |-> ContentOf(lines[i])]
    /\ vpY' = [i \in Tabs |->
                 IF follow[i]
                 THEN MaxYOffset(ContentOf(lines[i]), viewportHeight(h))
                 ELSE 0]
    /\ UNCHANGED <<lines, follow, hasUnread, active, quitting, cmdProcess,
                   readers, loopExited, prodVars, osVars, histVars>>

\* ------------------------------------------------------------------ View

\* The name New gives tab i: the i-th project name of the call.
tabName(i) == "p" \o ToString(i)

\* tabLabel that numbers every tab.
tabLabelNumbered(i) == ToString(i + 1) \o ":" \o tabName(i)

\* View's label of tab i: the first nine tabs carry their number.
tabLabel(i) ==
    IF i < 9 THEN ToString(i + 1) \o ":" \o tabName(i) ELSE tabName(i)

\* View's rendering of tab i in the tab bar: the style and the styled text.
tabCell(i) ==
    IF i = active THEN [style |-> "active", text |-> tabLabel(i)]
    ELSE IF hasUnread[i] THEN [style |-> "unread", text |-> "(dot) " \o tabLabel(i)]
    ELSE [style |-> "inactive", text |-> tabLabel(i)]

\* The frame View returns (the ellipsis, the dot and the bar of the source
\* are written in ASCII): nothing while quitting, a placeholder until the
\* geometry is known, else the tab bar (of the terminal's width), the active
\* tab's viewport and the help line with the follow indicator.
View ==
    IF quitting
    THEN [text |-> "", tabBar |-> <<>>, barWidth |-> 0, vp |-> <<>>, help |-> ""]
    ELSE IF ~ready
    THEN [text |-> "\n  Initializing...", tabBar |-> <<>>, barWidth |-> 0,
          vp |-> <<>>, help |-> ""]
    ELSE [text |-> "screen",
          tabBar |-> [k \in 1 .. NumTabs |-> tabCell(k - 1)],
          barWidth |-> width,
          vp |-> Visible(active),
          help |-> IF follow[active] THEN "help | FOLLOWING" ELSE "help"]

\* View that recomputes the active tab's follow flag while it renders.
RenderSetsFollow ==
    /\ ~loopExited
    /\ frame' = View
    /\ follow' = [follow EXCEPT ![active] =
                     AtBottom(vpContent[active], vpY[active], VpHeight)]
    /\ UNCHANGED <<lines, hasUnread, vpContent, vpY, active, width, height,
                   ready, quitting, cmdProcess, readers, loopExited, prodVars,
                   osVars, histVars, run>>

\* The runtime calls View and puts the frame on the terminal.
Render ==
    /\ ~loopExited
    /\ frame' = View
    /\ UNCHANGED <<modelVars, loopExited, prodVars, osVars, histVars, run>>

\* ------------------------------------------------------ specifications

\* The exit statuses a child ends with by itself.
ExitErrs == {"nil", "exit status 1"}

\* A step of source i's production side.
SourceStep(i) ==
    \/ \E ok \in BOOLEAN : TailPipe(i, ok)
    \/ TailStartFail(i)
    \/ \E d \in BOOLEAN : TailFork(i, d)
    \/ TailStarted(i)
    \/ TailStore(i)
    \/ ScanLine(i)
    \/ ScanFail(i)
    \/ WaitReturn(i)

\* A step of child process i.
ChildStep(i) ==
    \/ \E long \in BOOLEAN : ChildEmit(i, long)
    \/ \E err \in ExitErrs : ChildExit(i, err)

\* Update handling a message of source i.
UpdateMsg(i) == UpdateLine(i) \/ UpdateExit(i)

\* Update handling a tab-switching key (the history clearedUnread is left to
\* the specification).
UpdateKey ==
    \/ KeyNext
    \/ KeyPrev
    \/ \E d \in 1 .. (NumTabs + 1) : KeyDigit(d)

\* Update handling a key of the active tab's view, or a resize.
UpdateView ==
    \/ KeyBottom
    \/ KeyTop
    \/ \E k \in ScrollKeys : KeyScroll(k)
    \/ \E w \in Widths, h \in Heights : Resize(w, h)

Next ==
    \/ \E i \in Tabs : SourceStep(i) /\ UNCHANGED auxVars
    \/ \E i \in Tabs : ChildStep(i) /\ UNCHANGED auxVars
    \/ \E i \in Tabs : UpdateMsg(i) /\ UNCHANGED auxVars
    \/ UpdateKey /\ UNCHANGED <<clearedUnread, auxVars>>
    \/ KeyQuit /\ UNCHANGED auxVars
    \/ LoopExit /\ UNCHANGED auxVars

Spec == Init /\ [][Next]_vars

\* The specification the liveness claims are checked under: the runtime runs
\* every command it was handed and the loop handles every message it was
\* sent; the children and the user are under no obligation.  Each child
\* writes at most LiveEmit lines.
LiveChildStep(i) ==
    \/ \E long \in BOOLEAN : Len(emitted[i]) < LiveEmit /\ ChildEmit(i, long)
    \/ ChildExit(i, "exit status 1")

FairNext ==
    \/ \E i \in Tabs : SourceStep(i) /\ UNCHANGED auxVars
    \/ \E i \in Tabs : LiveChildStep(i) /\ UNCHANGED auxVars
    \/ \E i \in Tabs : UpdateMsg(i) /\ UNCHANGED auxVars
    \/ KeyQuit /\ UNCHANGED auxVars
    \/ LoopExit /\ UNCHANGED auxVars

Fairness ==
    /\ \A i \in AllTabs :
          /\ WF_vars(SourceStep(i) /\ UNCHANGED auxVars)
          /\ WF_vars(UpdateMsg(i) /\ UNCHANGED auxVars)
    /\ WF_vars(LoopExit /\ UNCHANGED auxVars)

FairSpec == Init /\ [][FairNext]_vars /\ Fairness

\* The specification of the viewer's own state: every case of Update, fed by
\* sources whose pipe and process start without failure and whose children
\* write short lines, each written (and each exit taken) while the source
\* waits in Scan with nothing left to read.  The user touches the keyboard
\* and the terminal once every source has reached its first Scan; messages
\* are handled for as long as the runtime leaves its quit command pending.
ViewSourceStep(i) ==
    \/ TailPipe(i, TRUE)
    \/ TailFork(i, FALSE)
    \/ TailStarted(i)
    \/ TailStore(i)
    \/ ScanLine(i)
    \/ ScanFail(i)
    \/ WaitReturn(i)

AllStarted == \A i \in Tabs : pc[i] \notin {"start", "piped", "forked", "started"}

ViewChildStep(i) ==
    /\ pc[i] = "scan"
    /\ Avail(i) = <<>>
    /\ \/ ChildEmit(i, FALSE)
       \/ \E err \in ExitErrs : ChildExit(i, err)

ViewNext ==
    \/ \E i \in Tabs : ViewSourceStep(i) /\ UNCHANGED auxVars
    \/ \E i \in Tabs : ViewChildStep(i) /\ UNCHANGED auxVars
    \/ \E i \in Tabs : UpdateMsg(i) /\ UNCHANGED auxVars
    \/ /\ AllStarted /\ UpdateKey /\ UNCHANGED auxVars
       /\ clearedUnread' = (clearedUnread \/ hasUnread[active'])
    \/ AllStarted /\ UpdateView /\ UNCHANGED auxVars
    \/ AllStarted /\ KeyQuit /\ UNCHANGED auxVars

ViewSpec == Init /\ [][ViewNext]_vars

\* The specification of the pipe: sources that start without failure, whose
\* children write short lines on either output channel and end cleanly; the
\* runtime runs every command and the loop handles every message.
PipeChildStep(i) ==
    \/ \E ch \in Channels : ChildWrite(i, ch)
    \/ ChildExit(i, "nil")

PipeNext ==
    \/ \E i \in Tabs : ViewSourceStep(i) /\ UNCHANGED auxVars
    \/ \E i \in Tabs : PipeChildStep(i) /\ UNCHANGED auxVars
    \/ \E i \in Tabs : UpdateMsg(i) /\ UNCHANGED auxVars

PipeSpec ==
    /\ Init
    /\ [][PipeNext]_vars
    /\ \A i \in AllTabs :
          /\ WF_vars(ViewSourceStep(i) /\ UNCHANGED auxVars)
          /\ WF_vars(UpdateMsg(i) /\ UNCHANGED auxVars)

\* The specification of scrolling: ViewSpec without the quit key, with one
\* tab-switching key, and with children that end cleanly.
ScrollChildStep(i) ==
    /\ pc[i] = "scan"
    /\ Avail(i) = <<>>
    /\ (ChildEmit(i, FALSE) \/ ChildExit(i, "nil"))

ScrollNext ==
    \/ \E i \in Tabs : ViewSourceStep(i) /\ UNCHANGED auxVars
    \/ \E i \in Tabs : ScrollChildStep(i) /\ UNCHANGED auxVars
    \/ \E i \in Tabs : UpdateMsg(i) /\ UNCHANGED auxVars
    \/ AllStarted /\ KeyNext /\ UNCHANGED <<clearedUnread, auxVars>>
    \/ AllStarted /\ UpdateView /\ UNCHANGED auxVars

ScrollSpec == Init /\ [][ScrollNext]_vars

\* The specification of rendering: ScrollSpec with children that write at
\* most LiveEmit lines, with the quit key and with the runtime rendering at
\* any moment of the loop.
RenderChildStep(i) ==
    /\ pc[i] = "scan"
    /\ Avail(i) = <<>>
    /\ (ChildEmitUpTo(i, FALSE, LiveEmit) \/ ChildExit(i, "nil"))

RenderNext ==
    \/ \E i \in Tabs : ViewSourceStep(i) /\ UNCHANGED auxVars
    \/ \E i \in Tabs : RenderChildStep(i) /\ UNCHANGED auxVars
    \/ \E i \in Tabs : UpdateMsg(i) /\ UNCHANGED auxVars
    \/ AllStarted /\ KeyNext /\ UNCHANGED <<clearedUnread, auxVars>>
    \/ AllStarted /\ UpdateView /\ UNCHANGED auxVars
    \/ AllStarted /\ KeyQuit /\ UNCHANGED auxVars
    \/ Render

RenderSpec == Init /\ [][RenderNext]_vars

\* The specification of the tab bar: a viewer of BarTabs tabs, more than the
\* nine that have a digit key.  The commands of the first and of the last
\* source have run and failed to start (the runtime has not run the others
\* yet), so that these tabs get a line; the user switches tabs with every
\* key, sends the first or the last tab to its top or bottom, resizes; the
\* runtime renders at any moment.
BarSources == {0, BarTabs - 1}

BarInit ==
    /\ run = [phase |-> "loop", nNames |-> BarTabs, calls |-> AllCalls(BarTabs),
              failed |-> {}, err |-> "nil"]
    /\ NewModel

BarNext ==
    \/ \E i \in BarSources : TailPipe(i, FALSE) /\ UNCHANGED auxVars
    \/ \E i \in BarSources : UpdateExit(i) /\ UNCHANGED auxVars
    \/ KeyNext /\ UNCHANGED <<clearedUnread, auxVars>>
    \/ KeyPrev /\ UNCHANGED <<clearedUnread, auxVars>>
    \/ \E d \in 1 .. 9 : KeyDigit(d) /\ UNCHANGED <<clearedUnread, auxVars>>
    \/ active \in BarSources /\ KeyTop /\ UNCHANGED auxVars
    \/ active \in BarSources /\ KeyBottom /\ UNCHANGED auxVars
    \/ \E w \in Widths, h \in Heights : Resize(w, h) /\ UNCHANGED auxVars
    \/ Render

BarSpec == BarInit /\ [][BarNext]_vars

\* The specification of the keys: a viewer of KeysTabs tabs.  The commands
\* of the first two sources run as in ScrollSpec (the runtime has not run
\* the others yet); the user presses every key but quit and resizes.
KeysSources == {0, 1}

KeysInit ==
    /\ run = [phase |-> "loop", nNames |-> KeysTabs, calls |-> AllCalls(KeysTabs),
              failed |-> {}, err |-> "nil"]
    /\ NewModel

\* Update handling a key.
AnyKey ==
    \/ KeyNext
    \/ KeyPrev
    \/ \E d \in 1 .. 9 : KeyDigit(d)
    \/ KeyTop
    \/ KeyBottom
    \/ \E k \in ScrollKeys : KeyScroll(k)

KeysNext ==
    \/ \E i \in KeysSources : ViewSourceStep(i) /\ UNCHANGED auxVars
    \/ \E i \in KeysSources : ScrollChildStep(i) /\ UNCHANGED auxVars
    \/ \E i \in KeysSources : UpdateMsg(i) /\ UNCHANGED auxVars
    \/ AnyKey /\ UNCHANGED <<clearedUnread, auxVars>>
    \/ \E w \in Widths, h \in Heights : Resize(w, h) /\ UNCHANGED auxVars

KeysSpec == KeysInit /\ [][KeysNext]_vars

\* The specification of a session with three sources a, b, c (tabs 0, 1, 2):
\* the child of a writes three lines and ends cleanly, the child of b writes
\* nothing and ends with an error, the child of c writes and never ends.
\* Every pipe and process starts; the user switches tabs at will.  The
\* runtime runs every command, the loop handles every message, and the
\* children of a and b do what they are to do.
ScenInit ==
    /\ run = [phase |-> "loop", nNames |-> 3, calls |-> AllCalls(3),
              failed |-> {}, err |-> "nil"]
    /\ NewModel

ScenChildStep(i) ==
    \/ i = 0 /\ ChildEmitUpTo(0, FALSE, 3)
    \/ i = 0 /\ Len(emitted[0]) = 3 /\ ChildExit(0, "nil")
    \/ i = 1 /\ ChildExit(1, "exit status 1")
    \/ i = 2 /\ ChildEmit(2, FALSE)

ScenNext ==
    \/ \E i \in Tabs : ViewSourceStep(i) /\ UNCHANGED auxVars
    \/ \E i \in Tabs : ScenChildStep(i) /\ UNCHANGED auxVars
    \/ \E i \in Tabs : UpdateMsg(i) /\ UNCHANGED auxVars
    \/ UpdateKey /\ UNCHANGED <<clearedUnread, auxVars>>

ScenSpec ==
    /\ ScenInit
    /\ [][ScenNext]_vars
    /\ \A i \in 0 .. 2 :
          /\ WF_vars(ViewSourceStep(i) /\ UNCHANGED auxVars)
          /\ WF_vars(UpdateMsg(i) /\ UNCHANGED auxVars)
    /\ \A i \in 0 .. 1 : WF_vars(ScenChildStep(i) /\ UNCHANGED auxVars)

\* ------------------------------------------------------------ Run and New

\* RunCheck without the test: New builds a Model of no tab and Run goes on.
RunCheckAcceptEmpty ==
    /\ run.phase = "begin"
    /\ run' = [run EXCEPT !.phase = IF run.nNames = 0 THEN "program" ELSE "new"]
    /\ UNCHANGED <<modelVars, loopExited, prodVars, osVars, histVars, frame>>

\* Run, first test: an empty list of project names is refused.
RunCheck ==
    /\ run.phase = "begin"
    /\ run' = IF run.nNames = 0
              THEN [run EXCEPT !.phase = "returned",
                               !.err = "no projects to show logs for"]
              ELSE [run EXCEPT !.phase = "new"]
    /\ UNCHANGED <<modelVars, loopExited, prodVars, osVars, histVars, frame>>

\* BuildOne for a New that goes on to the next name when a build call fails.
BuildOneSkipFailed(ok) ==
    /\ run.phase = "new"
    /\ LET i == Len(run.calls)
           calls == Append(run.calls, i)
       IN  run' = [run EXCEPT !.calls = calls,
                              !.failed = IF ok THEN @ ELSE @ \cup {i},
                              !.phase = IF Len(calls) = run.nNames
                                        THEN "program" ELSE "new"]
    /\ UNCHANGED <<modelVars, loopExited, prodVars, osVars, histVars, frame>>

\* BuildOne for a New that calls the builder once to test it and once more
\* for the command it keeps.
BuildOneTwice(ok) ==
    /\ run.phase = "new"
    /\ LET i == Len(run.calls) \div 2
           calls == run.calls \o <<i, i>>
       IN  run' = IF ok
                  THEN [run EXCEPT !.calls = calls,
                                   !.phase = IF Len(calls) = 2 * run.nNames
                                             THEN "program" ELSE "new"]
                  ELSE [run EXCEPT !.calls = calls,
                                   !.failed = @ \cup {i},
                                   !.phase = "returned",
                                   !.err = "failed to build log command"]
    /\ UNCHANGED <<modelVars, loopExited, prodVars, osVars, histVars, frame>>

\* New, one turn of its loop: builder(name) for the next name; an error
\* makes New, and with it Run, return that error.
BuildOne(ok) ==
    /\ run.phase = "new"
    /\ LET i == Len(run.calls)
           calls == Append(run.calls, i)
       IN  run' = IF ok
                  THEN [run EXCEPT !.calls = calls,
                                   !.phase = IF Len(calls) = run.nNames
                                             THEN "program" ELSE "new"]
                  ELSE [run EXCEPT !.calls = calls,
                                   !.failed = @ \cup {i},
                                   !.phase = "returned",
                                   !.err = "failed to build log command"]
    /\ UNCHANGED <<modelVars, loopExited, prodVars, osVars, histVars, frame>>

\* Run: tea.NewProgram(model).Run() takes the terminal and calls Init, or
\* fails to and returns an error.
ProgramStart(ok) ==
    /\ run.phase = "program"
    /\ run' = IF ok THEN [run EXCEPT !.phase = "loop"]
              ELSE [run EXCEPT !.phase = "returned", !.err = "TUI error"]
    /\ UNCHANGED <<modelVars, loopExited, prodVars, osVars, histVars, frame>>

\* ProgramEnd for a Run that reports the error a source ended with.
ProgramEndWithSourceError ==
    /\ run.phase = "loop"
    /\ loopExited
    /\ run' = [run EXCEPT !.phase = "returned",
                          !.err = IF \E i \in Tabs : pc[i] = "done" /\ lines[i] # <<" [process exited]">>
                                  THEN "source failed" ELSE "nil"]
    /\ UNCHANGED <<modelVars, loopExited, prodVars, osVars, histVars, frame>>

\* Run: the program's Run returns after the quit; Run returns nil.
ProgramEnd ==
    /\ run.phase = "loop"
    /\ loopExited
    /\ run' = [run EXCEPT !.phase = "returned"]
    /\ UNCHANGED <<modelVars, loopExited, prodVars, osVars, histVars, frame>>

\* The specification of a call of Run, from its first statement on: with no
\* project name or with NTabs of them, a builder and a terminal that may fail.
RunInit ==
    /\ \E n \in {0, NTabs} :
          run = [phase |-> "begin", nNames |-> n, calls |-> <<>>,
                 failed |-> {}, err |-> "nil"]
    /\ NewModel

RunNext ==
    \/ RunCheck
    \/ \E ok \in BOOLEAN : BuildOne(ok)
    \/ \E ok \in BOOLEAN : ProgramStart(ok)
    \/ run.phase = "loop" /\ FairNext
    \/ ProgramEnd

RunSpec == RunInit /\ [][RunNext]_vars

\* The specification of a whole session at the keyboard: Run from its first
\* statement, then every key but quit and every resize, with sources as in
\* ViewSpec that may also fail to start (os.Pipe or cmd.Start fails).
SessionSourceStep(i) ==
    \/ ViewSourceStep(i)
    \/ TailPipe(i, FALSE)
    \/ TailStartFail(i)

SessionLoop ==
    \/ \E i \in Tabs : SessionSourceStep(i) /\ UNCHANGED auxVars
    \/ \E i \in Tabs : ViewChildStep(i) /\ UNCHANGED auxVars
    \/ \E i \in Tabs : UpdateMsg(i) /\ UNCHANGED auxVars
    \/ AllStarted /\ UpdateKey /\ UNCHANGED <<clearedUnread, auxVars>>
    \/ AllStarted /\ UpdateView /\ UNCHANGED auxVars

SessionNext ==
    \/ RunCheck
    \/ \E ok \in BOOLEAN : BuildOne(ok)
    \/ \E ok \in BOOLEAN : ProgramStart(ok)
    \/ run.phase = "loop" /\ SessionLoop

SessionSpec == RunInit /\ [][SessionNext]_vars

\* ---------------------------------------------------------------- claims

\* The fields of the Model struct itself (cmd.Process belongs to the
\* exec.Cmd that m.cmds[i] points to).
modelFields == <<viewVars, quitting, readers>>

\* Source i's production side can take no step: it has finished, its message
\* waits for the loop, or it is blocked in Scan or in Wait.
Settled(i) == ~ENABLED SourceStep(i)

\* The texts of all lines child i wrote, in the order written.
EmittedText(i) == [k \in 1 .. Len(emitted[i]) |-> LineText(emitted[i][k].n)]

\* The log lines (not the status lines) appended to tab i so far.
LogTexts == {LineText(k) : k \in 1 .. (MaxEmit + 1)}
Delivered(i) == SelectSeq(appended[i], LAMBDA x : x \in LogTexts)

IsPrefix(s, t) == Len(s) <= Len(t) /\ s = SubSeq(t, 1, Len(s))

\* C1: once a quit key has been handled, a source whose production side has
\* come to rest has no running child process and no open read end, whatever
\* the source was doing when quit arrived.
C1_QuitLeavesNothing ==
    quitting =>
        \A i \in Tabs : Settled(i) => proc[i] # "running" /\ ~prOpen[i]

\* C3: the log lines appended to tab i are, in order and without gap or
\* repetition, the first lines child i wrote; and the tab holds the newest of
\* what was appended.
C3_PerSourceOrder ==
    \A i \in Tabs :
        /\ IsPrefix(Delivered(i), EmittedText(i))
        /\ lines[i] = LastN(appended[i], MaxLines)

\* C3 witness: a tab got two lines while another tab got one and the user
\* switched tabs.
C3_Witness ==
    \E i, j \in Tabs :
        /\ i # j
        /\ Len(Delivered(i)) >= 2
        /\ Len(Delivered(j)) >= 1
        /\ active # 0

ExitIsLast ==
    \A i \in Tabs : \A k \in 1 .. Len(msgLog[i]) :
        msgLog[i][k] = "exit" => k = Len(msgLog[i])

\* C4: a source's processExitedMsg is the last message it produces, and once
\* Update has appended its status line tab i's buffer stays as it is.
C4_ExitIsLastEvent ==
    /\ []ExitIsLast
    /\ [][\A i \in Tabs :
            /\ pc[i] = "exitmsg" => pc'[i] \in {"exitmsg", "done"}
            /\ pc[i] = "done" => pc'[i] = "done" /\ lines'[i] = lines[i]]_vars

\* C4 witness: a source that delivered a line has exited and its status line
\* was appended, while another source is still being read.
C4_Witness ==
    \E i, j \in Tabs :
        /\ pc[i] = "done"
        /\ Len(msgLog[i]) >= 2
        /\ pc[j] \in {"scan", "linemsg"}

RECURSIVE AppendAll(_, _, _)
AppendAll(ls, new, cap) ==
    IF new = <<>> THEN ls
    ELSE AppendAll(AppendCap(ls, Head(new), cap), Tail(new), cap)

\* C5: a tab never holds more than maxLines lines, and holds exactly the
\* newest maxLines of all lines appended to it, in order; with a cap of 5,
\* appending "1" .. "8" leaves "4" .. "8".
C5_BoundedFifo ==
    /\ \A i \in Tabs :
        /\ Len(lines[i]) <= MaxLines
        /\ lines[i] = LastN(appended[i], MaxLines)
    /\ AppendAll(<<>>, <<"1", "2", "3", "4", "5", "6", "7", "8">>, 5)
         = <<"4", "5", "6", "7", "8">>

\* C5 witness: more lines than maxLines were appended to a tab.
C5_Witness == \E i \in Tabs : Len(appended[i]) > MaxLines

\* C8: no step of a source's production side changes a field of the Model.
C8_ProductionLeavesModelAlone ==
    [][(\E i \in Tabs : SourceStep(i)) => UNCHANGED modelFields]_vars

C9_ReadFailureReported ==
    \A i \in AllTabs :
        (pc[i] = "wait") ~> ((pc[i] = "done" /\ ~prOpen[i]) \/ quitting)

\* C10: whatever the other sources do (blocked in Scan for ever, failed to
\* start), the k-th line a child wrote is appended to its tab, unless an
\* over-long line came before it or the user quits; and the loop is always
\* able to handle a key or a resize.
C10_NoSourceBlocksAnother ==
    /\ \A i \in AllTabs : \A k \in 1 .. LiveEmit :
        (Len(emitted[i]) >= k /\ \A n \in 1 .. k : ~emitted[i][n].long)
            ~> (Len(Delivered(i)) >= k \/ quitting)
    /\ [](~loopExited =>
            /\ ENABLED KeyNext
            /\ ENABLED KeyTop
            /\ \A h \in Heights : ENABLED Resize(80, h))

\* C10 witness: a line of one source was appended while another source sits
\* blocked in Scan on a child that has written nothing.
C10_Witness ==
    \E i, j \in Tabs :
        /\ i # j
        /\ Len(Delivered(i)) >= 1
        /\ pc[j] = "scan"
        /\ proc[j] = "running"
        /\ emitted[j] = <<>>

\* C6: the active tab's hasUnread flag is false in every reachable state.
C6_ActiveNeverUnread == ~hasUnread[active]

\* C6 witness: a tab whose flag was set has been made active, and another
\* tab holds unread lines.
C6_Witness ==
    /\ clearedUnread
    /\ \E j \in Tabs : j # active /\ hasUnread[j]

\* C7: a tab-switching key leaves the new active tab's flag false; an append
\* to tab i leaves its flag true when i is not active and false when it is;
\* nothing else changes a flag.
C7_UnreadTransitions ==
    [][\A i \in Tabs :
        LET grew == Len(appended'[i]) > Len(appended[i])
            activated == active' # active /\ i = active'
        IN  /\ activated => ~hasUnread'[i]
            /\ grew => hasUnread'[i] = (i # active)
            /\ (~grew /\ ~activated) => hasUnread'[i] = hasUnread[i]]_vars

\* C7 witness: a switch has cleared a set flag, an append has set the flag
\* of a tab that is not active, and resize and scroll events were handled.
C7_Witness ==
    /\ clearedUnread
    /\ ready
    /\ ~follow[active]
    /\ \E j \in Tabs : j # active /\ hasUnread[j] /\ Len(appended[active]) > 0

\* C11: the lines child i wrote on its two channels are appended to tab i in
\* the order written, whatever the channel of each; a write on one channel is
\* possible exactly when a write on the other is; and every line written, on
\* either channel, is read and appended.
C11_OnePipeForBothChannels ==
    /\ [](\A i \in Tabs :
            /\ IsPrefix(Delivered(i), EmittedText(i))
            /\ ENABLED ChildWrite(i, "stdout") <=> ENABLED ChildWrite(i, "stderr"))
    /\ \A i \in AllTabs : \A k \in 1 .. MaxEmit :
            (Len(emitted[i]) >= k) ~> (Len(Delivered(i)) >= k)

\* C11 witness: a child wrote first on stderr, then on stdout, and both
\* lines were appended to its tab.
C11_Witness ==
    \E i \in Tabs :
        /\ Len(emitted[i]) = 2
        /\ emitted[i][1].ch = "stderr"
        /\ emitted[i][2].ch = "stdout"
        /\ Len(Delivered(i)) = 2

\* The errors os.Pipe and cmd.Start fail with.
StartErrs == {"pipe: too many open files", "exec: not found"}

\* Source i's pipe or process could not be started: its command has returned
\* and no child was ever forked.
StartFailed(i) == proc[i] = "none" /\ pc[i] \in {"exitmsg", "done"}

\* C12: a source whose pipe or process failed to start produces one message,
\* a processExitedMsg carrying the error; once Update has handled it the tab
\* holds the status line with the error's text and nothing else; handling it
\* leaves every other tab as it was; the loop ends only by a quit.
C12_StartFailureIsOneStatusLine ==
    /\ [](\A i \in Tabs : StartFailed(i) =>
            /\ msgLog[i] = <<"exit">>
            /\ emitted[i] = <<>>
            /\ pc[i] = "exitmsg" =>
                  /\ msg[i].kind = "exit" /\ msg[i].tab = i
                  /\ msg[i].err \in StartErrs
                  /\ lines[i] = <<>>
            /\ pc[i] = "done" =>
                  /\ \E e \in StartErrs : lines[i] = <<" [process exited: " \o e \o "]">>
                  /\ appended[i] = lines[i]
            /\ loopExited => quitting)
    /\ [][\A i \in Tabs :
            (StartFailed(i) /\ pc[i] = "exitmsg" /\ pc'[i] = "done") =>
                /\ lines'[i] = <<" [process exited: " \o msg[i].err \o "]">>
                /\ \A j \in Tabs \ {i} :
                      /\ lines'[j] = lines[j]
                      /\ follow'[j] = follow[j]
                      /\ hasUnread'[j] = hasUnread[j]
                      /\ vpContent'[j] = vpContent[j]
                      /\ vpY'[j] = vpY[j]
                      /\ pc'[j] = pc[j]]_vars

\* C12 witness: one source failed to start and its status line was appended,
\* while a line of another source was appended too.
C12_Witness ==
    \E i, j \in Tabs :
        /\ i # j
        /\ StartFailed(i)
        /\ pc[i] = "done"
        /\ Len(Delivered(j)) >= 1
        /\ ~quitting

\* Run has returned an error.
RunFailed == run.phase = "returned" /\ run.err # "nil"

\* No process was started and no command of the run loop has run.
NothingStarted ==
    /\ \A i \in Tabs : proc[i] = "none" /\ pc[i] = "start" /\ msgLog[i] = <<>>
    /\ ~quitting
    /\ ~loopExited

\* C13: Run returns an error only when the list of names is empty or the
\* terminal program cannot run; a build call failing for one source does not
\* make Run fail.
C13_NoGlobalFailureFromOneSource ==
    RunFailed => run.nNames = 0 \/ run.err = "TUI error"

\* C14: with no name, or once a build call has failed, Run returns an error;
\* no process is started and the run loop is not entered, the processes of
\* the sources built before the failing one included.
C14_RunRefusesBeforeStarting ==
    /\ (run.nNames = 0 /\ run.phase # "begin") =>
            RunFailed /\ run.err = "no projects to show logs for"
    /\ run.failed # {} =>
            RunFailed /\ run.err = "failed to build log command"
    /\ (run.nNames = 0 \/ run.failed # {}) => NothingStarted

\* C14 witness: the builder succeeded for the first name and failed for the
\* second; Run has returned the error.
C14_Witness ==
    /\ run.calls = <<0, 1>>
    /\ run.failed = {1}
    /\ RunFailed

\* C15: the build calls made so far are for the names in list order, one
\* each; a session in its run loop has made one call for every name; and no
\* process is started nor any message produced before all calls were made.
C15_BuildOncePerSource ==
    /\ \A k \in 1 .. Len(run.calls) : run.calls[k] = k - 1
    /\ Len(run.calls) <= run.nNames
    /\ (run.phase = "loop" \/ (run.phase = "returned" /\ run.err = "nil")) =>
            run.calls = AllCalls(run.nNames)
    /\ ~NothingStarted =>
            run.calls = AllCalls(run.nNames) /\ run.phase \in {"loop", "returned"}

\* C15 witness: a session whose sources have delivered lines and whose user
\* has quit, Run having returned nil.
C15_Witness ==
    /\ run.phase = "returned"
    /\ run.err = "nil"
    /\ \E i \in Tabs : Len(Delivered(i)) >= 1

\* Source i has produced its processExitedMsg.
ExitEmitted(i) == \E k \in 1 .. Len(msgLog[i]) : msgLog[i][k] = "exit"

\* C16: a process begins to run only for a source that never had one; and
\* once a source has produced its exit event, whatever the cause, no process
\* is started for it and no command of it is handed to the runtime again.
C16_StartedAtMostOnce ==
    [][\A i \in Tabs :
        /\ (proc'[i] = "running" /\ proc[i] # "running") => proc[i] = "none"
        /\ ExitEmitted(i) =>
              /\ pc'[i] \in {"exitmsg", "done"}
              /\ proc'[i] # "running"
              /\ msgLog'[i] = msgLog[i]]_vars

\* C16 witness: one source ended cleanly after delivering a line, another
\* failed to start, and both status lines were appended.
C16_Witness ==
    \E i, j \in Tabs :
        /\ pc[i] = "done" /\ proc[i] = "reaped" /\ exitErr[i] = "nil"
        /\ Len(Delivered(i)) >= 1
        /\ StartFailed(j) /\ pc[j] = "done"

Last(q) == q[Len(q)]

\* C17: handling g / home leaves the active tab not following and its
\* viewport at the top, the oldest line of the buffer being the first line
\* on screen; handling G / end leaves it following and its viewport at the
\* bottom, the newest line of the buffer being the last line on screen;
\* whatever follow, the offset and the buffer were before.
C17_TopAndBottom ==
    [][/\ KeyTop =>
            /\ ~follow'[active]
            /\ vpY'[active] = 0
            /\ (ready /\ lines[active] # <<>>) =>
                    Head(Visible(active)') = Head(lines'[active])
       /\ KeyBottom =>
            /\ follow'[active]
            /\ vpY'[active] = MaxYOffset(vpContent'[active], VpHeight')
            /\ (ready /\ lines[active] # <<>>) =>
                    Last(Visible(active)') = Last(lines'[active])]_vars

\* C17 witness: a tab whose buffer is longer than the viewport and has
\* evicted a line is active, not following, and shown from its oldest line.
C17_Witness ==
    /\ ready
    /\ ~follow[active]
    /\ vpY[active] = 0
    /\ Len(lines[active]) > VpHeight
    /\ Len(appended[active]) > MaxLines
    /\ \E j \in Tabs : j # active /\ follow[j] /\ Len(lines[j]) > VpHeight

\* An append to the tab that is active, made with the geometry known.
AppendToActive ==
    /\ ready
    /\ active' = active
    /\ Len(appended'[active]) > Len(appended[active])

\* C18: once the geometry is known, every append to the active tab made
\* while it follows leaves the newest line of its buffer as the last line on
\* screen, also when the append evicts the oldest line.
C18_FollowShowsNewest ==
    [][(AppendToActive /\ follow[active]) =>
            /\ Visible(active)' # <<>>
            /\ Last(Visible(active)') = Last(lines'[active])
            /\ Last(lines'[active]) = Last(appended'[active])]_vars

\* C18 witness: the active tab follows, has evicted a line, holds more lines
\* than the viewport shows, and the last line on screen is its newest.
C18_Witness ==
    /\ ready
    /\ follow[active]
    /\ Len(appended[active]) > MaxLines
    /\ Len(lines[active]) > VpHeight
    /\ Last(Visible(active)) = Last(appended[active])

\* C13, amended: Run returns an error only when the list of names is empty,
\* a build call fails, or the terminal program cannot run; once sources were
\* started no failure of a source (pipe, start, exit with an error) makes
\* Run return an error.
C13_NoGlobalFailureAfterStartup ==
    /\ RunFailed =>
            run.nNames = 0 \/ run.failed # {} \/ run.err = "TUI error"
    /\ (run.phase = "returned" /\ ~NothingStarted) =>
            run.err \in {"nil", "TUI error"}

\* C13 witness: one source failed to start, another's process ended with an
\* error, both status lines were appended, the user quit, Run returned nil.
C13_Witness ==
    \E i, j \in Tabs :
        /\ StartFailed(i) /\ pc[i] = "done"
        /\ exitErr[j] = "exit status 1" /\ pc[j] = "done"
        /\ run.phase = "returned"
        /\ run.err = "nil"

\* Update handles a scroll-up key: one line up, or one page up.
ScrollUp == KeyScroll("up") \/ KeyScroll("pgup")

\* C19: after a scroll-up key the active tab does not follow, whatever the
\* buffer's length and the viewport's height.
C19_ScrollUpEndsFollow ==
    [][ScrollUp => ~follow'[active]]_vars

\* C19, amended: after a scroll-up key the active tab follows exactly when
\* its viewport is at the bottom: it does not follow when its content is
\* longer than the viewport, and follows when all of it is on screen or the
\* geometry is not known yet.
C19_ScrollUpFollowIsAtBottom ==
    [][ScrollUp =>
        /\ follow'[active] = AtBottom(vpContent'[active], vpY'[active], VpHeight')
        /\ (ready /\ Len(vpContent[active]) > VpHeight) => ~follow'[active]
        /\ (~ready \/ Len(vpContent[active]) <= VpHeight) => follow'[active]]_vars

\* C19 witness: the active tab holds more lines than the viewport shows, the
\* view is above the bottom and the tab does not follow, after having
\* followed through three appends.
C19_Witness ==
    /\ ready
    /\ Len(vpContent[active]) > VpHeight
    /\ vpY[active] < MaxYOffset(vpContent[active], VpHeight)
    /\ ~follow[active]
    /\ Len(appended[active]) > MaxLines
    /\ \E j \in Tabs : j # active /\ ~follow[j] /\ Len(vpContent[j]) <= VpHeight

\* C20: an append to the active tab made while it does not follow leaves
\* the window where it was: the lines on screen before the append are on
\* screen after it, in the same places, also when the append evicts the
\* oldest line of the buffer (an empty buffer has no line on screen).
C20_AppendKeepsWindow ==
    [][(AppendToActive /\ ~follow[active] /\ lines[active] # <<>>) =>
            IsPrefix(Visible(active), Visible(active)')]_vars

C22_TabCountFixed ==
    /\ NumTabs = run.nNames
    /\ \A f \in {DOMAIN lines, DOMAIN follow, DOMAIN hasUnread, DOMAIN vpContent,
                  DOMAIN vpY, DOMAIN cmdProcess, DOMAIN readers} :
            f = 0 .. (run.nNames - 1)
    /\ run.phase = "loop" =>
            /\ NumTabs >= 1
            /\ active \in 0 .. (NumTabs - 1)

\* C22 witness: in a running session the user has moved to the last tab,
\* lines and a status line have arrived, and the terminal was resized.
C22_Witness ==
    /\ run.phase = "loop"
    /\ active = NumTabs - 1
    /\ active > 0
    /\ ready
    /\ \E i \in Tabs : pc[i] = "done" /\ Len(appended[i]) > MaxLines

\* C23: a key (tab switch, direct jump, scroll, top, bottom) and a resize
\* leave every tab's lines as they are; handling a message of source i
\* leaves the lines of every other tab as they are; and the lines of tab j
\* change only in a step that handles a message of source j.
C23_BufferMutationFrame ==
    [][/\ (run.phase = "loop" /\ (UpdateKey \/ UpdateView)) => lines' = lines
       /\ \A i \in Tabs : UpdateMsg(i) =>
              \A j \in Tabs \ {i} : lines'[j] = lines[j]
       /\ \A j \in Tabs : lines'[j] # lines[j] =>
              /\ pc[j] \in {"linemsg", "exitmsg"}
              /\ pc'[j] # pc[j]
              /\ msg[j].tab = j]_vars

\* C23 witness: both tabs hold lines of their own sources, one has evicted
\* a line, and the user has switched, scrolled and resized meanwhile.
C23_Witness ==
    /\ ready
    /\ active # 0
    /\ ~follow[active]
    /\ \E i, j \in Tabs :
          /\ i # j
          /\ Len(appended[i]) > MaxLines
          /\ Len(appended[j]) >= 1

\* The status lines a tab can end with.
StatusLines ==
    {" [process exited]"} \cup
    {" [process exited: " \o e \o "]" : e \in (ExitErrs \ {"nil"}) \cup StartErrs}

\* Tab i's source has ended and its exit message has been handled.
Dead(i) == pc[i] = "done"

\* C24: once the exit message of source i has been handled, tab i can be
\* made active by its digit, by next from the tab before it and by prev from
\* the tab after it; while it is active, top, bottom and the scroll keys
\* move its view as they move any tab's; its buffer is the newest MaxLines
\* of what was appended to it, ending with the status line; and no later
\* step changes that buffer or revives the source.
C24_DeadTabUsable ==
    /\ [](\A i \in Tabs : (run.phase = "loop" /\ Dead(i)) =>
            /\ ENABLED (KeyDigit(i + 1) /\ active' = i /\ ~hasUnread'[i])
            /\ active = (i - 1 + NumTabs) % NumTabs =>
                    ENABLED (KeyNext /\ active' = i /\ ~hasUnread'[i])
            /\ active = (i + 1) % NumTabs =>
                    ENABLED (KeyPrev /\ active' = i /\ ~hasUnread'[i])
            /\ active = i =>
                    /\ ENABLED (KeyTop /\ vpY'[i] = 0 /\ ~follow'[i])
                    /\ ENABLED (KeyBottom /\ follow'[i]
                                /\ vpY'[i] = MaxYOffset(vpContent[i], VpHeight))
                    /\ \A k \in ScrollKeys :
                          ENABLED (KeyScroll(k) /\ vpY'[i] =
                                     ScrollY(k, vpContent[i], vpY[i], VpHeight))
            /\ lines[i] = LastN(appended[i], MaxLines)
            /\ Last(lines[i]) \in StatusLines
            /\ \A k \in 1 .. (Len(appended[i]) - 1) :
                    appended[i][k] \notin StatusLines)
    /\ [][\A i \in Tabs : Dead(i) => (lines'[i] = lines[i] /\ Dead(i)')]_vars

\* C24 witness: a source that ended cleanly after more than MaxLines lines
\* and a source that failed to start; the tab of the first is on screen,
\* scrolled to its top, the other tab has been visited.
C24_Witness ==
    /\ run.phase = "loop"
    /\ ready
    /\ \E i, j \in Tabs :
          /\ Dead(i) /\ Dead(j)
          /\ Len(appended[i]) > MaxLines
          /\ Last(lines[i]) = " [process exited]"
          /\ lines[j] = <<" [process exited: exec: not found]">>
          /\ active = i /\ ~follow[i] /\ vpY[i] = 0
          /\ ~hasUnread[j]

NextOf(a) == IF a = NumTabs - 1 THEN 0 ELSE a + 1
PrevOf(a) == IF a = 0 THEN NumTabs - 1 ELSE a - 1

\* C26: the next-tab key makes the tab after the active one active (the
\* first after the last), the prev-tab key the tab before it (the last
\* before the first); the new active index is within 0 .. N-1, the new
\* active tab's hasUnread is cleared, every other tab's hasUnread, every
\* follow flag and every buffer are unchanged.
C26_NextPrevWrap ==
    /\ [](run.phase = "loop" =>
            /\ ENABLED (KeyNext /\ active' = NextOf(active))
            /\ ENABLED (KeyPrev /\ active' = PrevOf(active)))
    /\ [][run.phase = "loop" =>
            /\ KeyNext => active' = NextOf(active)
            /\ KeyPrev => active' = PrevOf(active)
            /\ (KeyNext \/ KeyPrev) =>
                  /\ active' \in 0 .. (NumTabs - 1)
                  /\ hasUnread' = [hasUnread EXCEPT ![active'] = FALSE]
                  /\ follow' = follow
                  /\ lines' = lines]_vars

\* C26 witness: the last tab is active, scrolled away from its bottom, and
\* the first tab is unread: next-tab wraps forward to the first tab and
\* clears its mark, prev-tab goes to the tab before the last.
C26_Witness ==
    /\ run.phase = "loop"
    /\ ready
    /\ active = NumTabs - 1
    /\ hasUnread[0]
    /\ ~follow[active]
    /\ ENABLED (KeyNext /\ active' = 0 /\ ~hasUnread'[0])
    /\ ENABLED (KeyPrev /\ active' = NumTabs - 2)

\* The digits of the direct-jump keys.
Digits == 1 .. 9

\* C27: the key of digit d with d-1 < N makes tab d-1 active and clears its
\* hasUnread, leaving every other hasUnread, every follow flag and every
\* buffer as they are; the key of a digit with d-1 >= N can be handled and
\* changes nothing at all.
C27_DigitJump ==
    /\ [](run.phase = "loop" => \A d \in Digits :
            IF d - 1 < NumTabs
            THEN ENABLED (/\ KeyDigit(d)
                          /\ active' = d - 1
                          /\ hasUnread' = [hasUnread EXCEPT ![d - 1] = FALSE]
                          /\ follow' = follow
                          /\ lines' = lines)
            ELSE /\ ENABLED (KeyDigit(d) /\ UNCHANGED <<clearedUnread, auxVars>>)
                 /\ ~ENABLED (/\ KeyDigit(d)
                              /\ UNCHANGED <<clearedUnread, auxVars>>
                              /\ vars' # vars))
    /\ [][run.phase = "loop" => \A d \in Digits :
            (KeyDigit(d) /\ d - 1 < NumTabs) =>
                /\ active' = d - 1
                /\ hasUnread' = [hasUnread EXCEPT ![d - 1] = FALSE]
                /\ follow' = follow
                /\ lines' = lines]_vars

\* C27 witness: the first tab is active and scrolled away from its bottom,
\* the last tab is unread: its digit jumps to it and clears the mark, and
\* the digit after it is a key that changes nothing.
C27_Witness ==
    /\ run.phase = "loop"
    /\ ready
    /\ active = 0
    /\ ~follow[0]
    /\ hasUnread[NumTabs - 1]
    /\ ENABLED (KeyDigit(NumTabs) /\ active' = NumTabs - 1 /\ ~hasUnread'[NumTabs - 1])
    /\ ENABLED (KeyDigit(NumTabs + 1) /\ active' = 0 /\ hasUnread' = hasUnread)

\* C28: the step that handles the exit message of source i appends to tab i
\* exactly one line, "[process exited]" when the message carries no error
\* and "[process exited: <detail>]" with the error's text when it does, and
\* appends nothing to any other tab.
C28_StatusLineText ==
    [][\A i \in Tabs : (pc[i] = "exitmsg" /\ pc'[i] = "done") =>
          /\ appended'[i] = Append(appended[i],
                 IF msg[i].err = "nil" THEN "[process exited]"
                 ELSE "[process exited: " \o msg[i].err \o "]")
          /\ \A j \in Tabs \ {i} : appended'[j] = appended[j]]_vars

\* The active tab's view shows the last line of its content (or the content
\* is shorter than the view).
ViewAtBottom == vpY[active] + VpHeight >= Len(vpContent[active])

\* C29: whatever key Update forwards to the viewport (line up or down, page
\* up or down, a key bound to nothing), after the step follow[active] is
\* exactly whether the active tab's view is at the bottom of its content,
\* switched on as well as off; no other tab's follow changes; and every such
\* key can be handled in every state of the loop.
C29_ScrollRecomputesFollow ==
    /\ [](run.phase = "loop" => \A k \in ScrollKeys :
            ENABLED (KeyScroll(k) /\ follow'[active] = ViewAtBottom'))
    /\ [][run.phase = "loop" => \A k \in ScrollKeys : KeyScroll(k) =>
            /\ follow'[active] = ViewAtBottom'
            /\ \A j \in Tabs \ {active} : follow'[j] = follow[j]
            /\ active' = active]_vars

\* C29 witness: the active tab has more content than its view holds, was
\* sent to the top, and is one line above its bottom with follow off: the
\* down key ends at the bottom and switches follow on again.
C29_Witness ==
    /\ run.phase = "loop"
    /\ ready
    /\ ~follow[active]
    /\ Len(vpContent[active]) > VpHeight
    /\ vpY[active] = MaxYOffset(vpContent[active], VpHeight) - 1
    /\ ENABLED (KeyScroll("down") /\ follow'[active])
    /\ ENABLED (KeyScroll("up") /\ ~follow'[active])

\* C30: a resize to w x h can be handled in every state of the loop; it sets
\* width, height and ready; after it every tab's viewport, active or not,
\* holds exactly that tab's buffer (one empty line for an empty buffer) and,
\* if the tab follows, shows the buffer's newest line as its last line; it
\* changes no buffer, no follow or hasUnread flag and not the active tab; and
\* a non-empty buffer of the active tab is on screen after it, also when its
\* lines arrived before the first resize.
C30_ResizeRebuildsAll ==
    /\ [](run.phase = "loop" => \A w \in Widths, h \in Heights :
            ENABLED (Resize(w, h) /\ ready'))
    /\ [][run.phase = "loop" => \A w \in Widths, h \in Heights : Resize(w, h) =>
            /\ width' = w /\ height' = h /\ ready'
            /\ \A i \in Tabs :
                  /\ vpContent'[i] = (IF lines[i] = <<>> THEN <<"">> ELSE lines[i])
                  /\ (follow[i] /\ lines[i] # <<>>) =>
                        /\ Visible(i)' # <<>>
                        /\ Last(Visible(i)') = Last(lines[i])
            /\ lines' = lines
            /\ follow' = follow
            /\ hasUnread' = hasUnread
            /\ active' = active
            /\ lines[active] # <<>> =>
                  /\ Visible(active)' # <<>>
                  /\ \A k \in 1 .. Len(Visible(active)') :
                        \E n \in 1 .. Len(lines[active]) :
                            Visible(active)'[k] = lines[active][n]]_vars

\* C30 witness: before any resize, lines have arrived on the active tab and
\* on another, unread tab, whose viewports hold nothing yet: the resize is
\* enabled and puts the lines of both into their viewports.
C30_Witness ==
    /\ run.phase = "loop"
    /\ ~ready
    /\ Len(lines[active]) = MaxLines
    /\ vpContent[active] = <<>>
    /\ \E j \in Tabs :
          /\ j # active /\ hasUnread[j] /\ lines[j] # <<>> /\ vpContent[j] = <<>>
          /\ ENABLED (/\ \E w \in Widths, h \in Heights : Resize(w, h)
                      /\ vpContent'[j] = lines[j]
                      /\ vpContent'[active] = lines[active])

\* The style of tab i's entry in the bar, by the claim's rule.
StyleOf(i) ==
    IF i = active THEN "active"
    ELSE IF hasUnread[i] THEN "unread"
    ELSE "inactive"

\* The text of an entry that carries the number i+1 and the name of tab i,
\* with the unread dot before it on an unread entry.
NumberedText(i) ==
    IF StyleOf(i) = "unread"
    THEN "(dot) " \o ToString(i + 1) \o ":" \o "p" \o ToString(i)
    ELSE ToString(i + 1) \o ":" \o "p" \o ToString(i)

\* The text of an entry that carries the name of tab i only.
NameOnlyText(i) ==
    IF StyleOf(i) = "unread"
    THEN "(dot) " \o "p" \o ToString(i)
    ELSE "p" \o ToString(i)

\* The frame is a screen whose bar has one entry per tab, styled by the
\* rule, and whose help line shows the follow indicator iff the active tab
\* follows.
BarStylesAndHelp ==
    /\ frame'.text = "screen"
    /\ Len(frame'.tabBar) = NumTabs
    /\ \A i \in Tabs : frame'.tabBar[i + 1].style = StyleOf(i)
    /\ frame'.help = (IF follow[active] THEN "help | FOLLOWING" ELSE "help")

\* C31 as stated: in every frame rendered by a ready viewer, every entry
\* of the bar, those of tabs 9 and up included, carries the tab's number i+1
\* and its name, is styled by the rule, and the help line shows the follow
\* indicator iff the active tab follows.
C31_EveryTabNumbered ==
    [][(Render /\ ready /\ ~quitting) =>
          /\ BarStylesAndHelp
          /\ \A i \in Tabs : frame'.tabBar[i + 1].text = NumberedText(i)]_vars

\* C31 amended: as above, but only the entries of tabs 0 .. 8 carry the
\* number; the entry of a tab of index 9 or more carries the name alone.
C31_FirstNineNumbered ==
    [][(Render /\ ready /\ ~quitting) =>
          /\ BarStylesAndHelp
          /\ \A i \in Tabs : frame'.tabBar[i + 1].text =
                (IF i < 9 THEN NumberedText(i) ELSE NameOnlyText(i))]_vars

\* C31 witness: a rendered frame of the ten-tab viewer, current, in which
\* the first tab is active and does not follow, and the tenth tab is unread.
C31_Witness ==
    /\ frame = View
    /\ frame.text = "screen"
    /\ NumTabs >= 10
    /\ active = 0
    /\ frame.tabBar[1].style = "active"
    /\ frame.tabBar[2].style = "inactive"
    /\ frame.tabBar[10].style = "unread"
    /\ frame.help = "help"

\* C32: once the quit key has been handled, no child process is started: a
\* source whose process did not exist when killAll ran never gets one.
C32_NoStartAfterQuit ==
    [][\A i \in Tabs : (quitting /\ proc[i] = "none") => proc'[i] = "none"]_vars

\* C33: the viewer's write end of source i's pipe is open only until
\* cmd.Start has returned or failed (it is closed in every later position of
\* the source's commands), and once the exit message of source i has been
\* emitted the viewer holds neither end of the pipe.
C33_PipeEndsReleased ==
    \A i \in Tabs :
        /\ pwOpen[i] => pc[i] \in {"piped", "forked"}
        /\ prOpen[i] => pc[i] \in {"piped", "forked", "started", "scan", "linemsg", "wait"}
        /\ ExitEmitted(i) => (~prOpen[i] /\ ~pwOpen[i])

\* C33 witness: without a quit, one source has read a line, reached the end
\* of its stream and emitted its exit message, and another has emitted its
\* exit message because its process failed to start.
C33_Witness ==
    /\ ~quitting
    /\ \E i, j \in Tabs :
          /\ msgLog[i] = <<"line", "exit">>
          /\ msgLog[j] = <<"exit">>
          /\ proc[j] = "none"
          /\ pc[j] = "done"
          /\ lines[j] = <<" [process exited: exec: not found]">>

\* The lines of source i that have left the pipe and the scanner and have
\* not been appended yet: the lines travelling as messages.
InFlight(i) ==
    Len(emitted[i]) - Len(pipe[i]) - Len(sbuf[i])
        - (Len(appended[i]) - (IF pc[i] = "done" THEN 1 ELSE 0))

\* C34: a source has either one command scheduled or running and no
\* undelivered message, or one undelivered message and no command, or
\* (its exit message handled) nothing; at most one of its lines is
\* travelling as a message, every other line its child wrote being either
\* appended or still in the pipe or the scanner; and a read step begins
\* only inside tailLogs after the start, or in the Update step that appends
\* the source's previous line.
C34_OneWorkItemPerSource ==
    /\ [](\A i \in Tabs :
            /\ (msg[i] # NoMsg) <=> (pc[i] \in {"linemsg", "exitmsg"})
            /\ InFlight(i) = (IF pc[i] = "linemsg" THEN 1 ELSE 0)
            /\ Len(msgLog[i]) - Len(appended[i]) = (IF msg[i] # NoMsg THEN 1 ELSE 0))
    /\ [][\A i \in Tabs : (pc'[i] = "scan" /\ pc[i] # "scan") =>
            \/ pc[i] = "started"
            \/ /\ pc[i] = "linemsg"
               /\ msg[i].kind = "line"
               /\ appended'[i] = Append(appended[i], msg[i].line)]_vars

\* C34 witness: a line of source i travels as a message while its child has
\* already written the next one, which waits in the pipe; another source
\* has had a line appended and reads again.
C34_Witness ==
    \E i, j \in Tabs :
        /\ i # j
        /\ pc[i] = "linemsg"
        /\ Len(pipe[i]) >= 1
        /\ Len(emitted[i]) = 2
        /\ pc[j] = "scan"
        /\ Len(appended[j]) >= 1

\* C35: whenever the geometry is known, the content of the active tab's
\* viewport is the active tab's buffer (one empty line for an empty
\* buffer), in every state the loop can be in after handling an event.
C35_ActiveViewShowsBuffer ==
    (run.phase = "loop" /\ ready) =>
        vpContent[active] = (IF lines[active] = <<>> THEN <<"">> ELSE lines[active])

\* C35 witness: the geometry is known, the active tab's viewport holds its
\* full buffer, and the next tab has received lines while inactive that its
\* viewport does not hold yet: the switch to it brings them in.
C35_Witness ==
    /\ run.phase = "loop"
    /\ ready
    /\ Len(lines[active]) = MaxLines
    /\ vpContent[active] = lines[active]
    /\ \E j \in Tabs :
          /\ j # active
          /\ hasUnread[j]
          /\ lines[j] # <<>>
          /\ vpContent[j] # lines[j]
          /\ ENABLED (KeyNext /\ active' = j /\ vpContent'[j] = lines[j])

\* C36: no handling of a key the viewport binds to nothing changes a follow
\* flag, and neither does a tab-switching key, a line or exit message, or a
\* resize: follow flags change in top, bottom and scroll or page steps only.
C36_FollowChangedByViewKeysOnly ==
    /\ [](run.phase = "loop" =>
            ~ENABLED (/\ KeyScroll("x")
                      /\ UNCHANGED <<clearedUnread, auxVars>>
                      /\ follow' # follow))
    /\ [][run.phase = "loop" =>
            ((\/ UpdateKey
              \/ \E i \in Tabs : UpdateMsg(i)
              \/ \E w \in Widths, h \in Heights : Resize(w, h)) => follow' = follow)]_vars

\* C37: a step that handles a key leaves the follow flag, the scroll
\* position and the viewport content of every tab as they are, but those of
\* the tab that is active when the handler touches the view: the active
\* tab, which for a tab-switching key is the tab the key has made active
\* (the tab left behind is not touched, and no follow flag changes then).
C37_KeysTouchActiveTabOnly ==
    [][AnyKey =>
          /\ \A j \in Tabs \ {active'} :
                /\ follow'[j] = follow[j]
                /\ vpY'[j] = vpY[j]
                /\ vpContent'[j] = vpContent[j]
          /\ active' # active => follow' = follow]_vars

\* C37 witness: of three tabs, the active one is scrolled to the top of a
\* buffer longer than its view and does not follow, a second one follows at
\* an offset above zero, the third is empty and follows; the down key is
\* about to move the active tab's view.
C37_Witness ==
    /\ ready
    /\ ~follow[active]
    /\ vpY[active] = 0
    /\ Len(vpContent[active]) > VpHeight
    /\ \E j, k \in Tabs :
          /\ j # active /\ k # active /\ j # k
          /\ follow[j] /\ vpY[j] > 0
          /\ follow[k] /\ lines[k] = <<>>
    /\ ENABLED (KeyScroll("down") /\ vpY'[active] = 1)

\* Update handles one next-tab key, one prev-tab key.
NextStep == KeyNext /\ UNCHANGED <<clearedUnread, auxVars>>
PrevStep == KeyPrev /\ UNCHANGED <<clearedUnread, auxVars>>

\* Tab b is the active tab after k next-tab keys handled in a row from the
\* present state, for k = 0, 1, ... (b is a tab index, not a state value).
AfterNext0(b) == active = b
AfterNext1(b) == ENABLED (NextStep /\ AfterNext0(b)')
AfterNext2(b) == ENABLED (NextStep /\ AfterNext1(b)')
AfterNext3(b) == ENABLED (NextStep /\ AfterNext2(b)')
AfterNext4(b) == ENABLED (NextStep /\ AfterNext3(b)')
AfterNext5(b) == ENABLED (NextStep /\ AfterNext4(b)')
AfterNext6(b) == ENABLED (NextStep /\ AfterNext5(b)')
AfterNext7(b) == ENABLED (NextStep /\ AfterNext6(b)')
AfterNext8(b) == ENABLED (NextStep /\ AfterNext7(b)')
AfterNext9(b) == ENABLED (NextStep /\ AfterNext8(b)')
AfterNext10(b) == ENABLED (NextStep /\ AfterNext9(b)')
AfterNext11(b) == ENABLED (NextStep /\ AfterNext10(b)')
AfterNext12(b) == ENABLED (NextStep /\ AfterNext11(b)')

AfterNext(k, b) ==
    CASE k = 0 -> AfterNext0(b)
      [] k = 1 -> AfterNext1(b)
      [] k = 2 -> AfterNext2(b)
      [] k = 3 -> AfterNext3(b)
      [] k = 4 -> AfterNext4(b)
      [] k = 5 -> AfterNext5(b)
      [] k = 6 -> AfterNext6(b)
      [] k = 7 -> AfterNext7(b)
      [] k = 8 -> AfterNext8(b)
      [] k = 9 -> AfterNext9(b)
      [] k = 10 -> AfterNext10(b)
      [] k = 11 -> AfterNext11(b)
      [] k = 12 -> AfterNext12(b)

\* C38: in every state of the loop, with a the active tab: next then prev,
\* and prev then next, lead back to a; N next-tab keys in a row lead back to
\* a and fewer (but at least one) do not; and every tab b, the tabs of index
\* 9 and more included, is active after (b - a) mod N next-tab keys, which
\* is at most N-1.
C38_NavigationIsCyclic ==
    \A a \in Tabs : active = a =>
        /\ ENABLED (NextStep /\ (ENABLED (PrevStep /\ active' = a))')
        /\ ENABLED (PrevStep /\ (ENABLED (NextStep /\ active' = a))')
        /\ AfterNext(NumTabs, a)
        /\ \A k \in 1 .. (NumTabs - 1) : ~AfterNext(k, a)
        /\ \A b \in Tabs :
              /\ (b - a + NumTabs) % NumTabs <= NumTabs - 1
              /\ AfterNext((b - a + NumTabs) % NumTabs, b)

\* C38 witness: in the viewer of ten tabs the tenth tab, which no digit key
\* reaches, is active; one more next-tab key wraps to the first tab, and
\* the first tab is unread.
C38_Witness ==
    /\ NumTabs >= 10
    /\ active = NumTabs - 1
    /\ ready
    /\ hasUnread[0]
    /\ AfterNext1(0)
    /\ AfterNext(NumTabs, NumTabs - 1)

====
